---- MODULE Spec2Model ----
(***************************************************************************)
(* SST - Swing Setup Tracker.  A model of the backtesting engine           *)
(* (lib/backtest.ts, runBacktest) and of the signal analyzer               *)
(* (lib/strategy.ts, analyzeStock).                                        *)
(*                                                                         *)
(* JavaScript numbers are modelled as exact rationals <<num, den>> with    *)
(* den > 0 and gcd(num, den) = 1; floating-point rounding is not modelled. *)
(* Prices of the input bars are integers.  A bar's date is its index in    *)
(* the candle array (dates are unique and ascending).                      *)
(***************************************************************************)
EXTENDS Integers, Sequences, FiniteSets, TLC

-----------------------------------------------------------------------------
(* Bounds of the model *)

\* Largest number of evaluated days (bars drawn freely from BarSet).
MaxDays == 3

\* Largest number of evaluated days of an input given to analyzeStock alone.
MaxScanDays == 4

\* Number of bars of the flat run with one dip and one breakout.
FlatRunLength == 25

-----------------------------------------------------------------------------
(* Program constants *)

\* Length of the trailing window, candles.slice(i - 20, i).
Lookback == 20

\* candles.length < 21 returns null.
MinCandles == 21

-----------------------------------------------------------------------------
(* Exact arithmetic on JavaScript numbers *)

Abs(x) == IF x < 0 THEN -x ELSE x

RECURSIVE GCD(_, _)
GCD(a, b) == IF b = 0 THEN a ELSE GCD(b, a % b)

Norm(num, den) ==
    LET g == GCD(Abs(num), den)
    IN  <<num \div g, den \div g>>

RInt(k) == <<k, 1>>
RAdd(a, b) == Norm(a[1] * b[2] + b[1] * a[2], a[2] * b[2])
RSub(a, b) == Norm(a[1] * b[2] - b[1] * a[2], a[2] * b[2])
RMul(a, b) == Norm(a[1] * b[1], a[2] * b[2])
\* a / b for b > 0
RDiv(a, b) == Norm(a[1] * b[2], a[2] * b[1])
RLt(a, b) == a[1] * b[2] < b[1] * a[2]
RLe(a, b) == a[1] * b[2] <= b[1] * a[2]
\* Math.floor
Floor(a) == a[1] \div a[2]

\* The value undefined (an absent argument, an unset date).
Undefined == -1

\* The value null.
Null == [null |-> TRUE]

-----------------------------------------------------------------------------
(* Inputs *)

Bar(h, l, c) == [high |-> h, low |-> l, close |-> c]

\* The bars a day can have.
BarSet ==
    { Bar(2, 1, 2), Bar(3, 2, 3), Bar(4, 2, 2),
      Bar(5, 3, 5), Bar(5, 2, 4), Bar(7, 4, 7) }

\* The bar of the days before the first evaluated day.
PrefixBars == { Bar(3, 2, 3) }

\* The bar of a calm stretch.
CalmBar == Bar(2, 1, 2)

\* The flat run: every bar is the prefix bar, except that the first evaluated
\* day makes a new 20-bar low and the day two bars later breaks the 20-bar high.
FlatRunBars(k) ==
    IF k = Lookback
    THEN { b \in BarSet : \A f \in PrefixBars : b.low < f.low /\ b.high <= f.high }
    ELSE IF k = Lookback + 2
    THEN { b \in BarSet : \A f \in PrefixBars : b.high > f.high }
    ELSE PrefixBars

\* Lengths of inputs that are too short.
ShortLengths == {0, 10, 20}

ExitStrategies == {"WEIGHTED_AVERAGE", "LIFO"}

\* Arguments of runBacktest with a target of 20 percent.
ArgSetLowTarget ==
    [ initialCapital      : {24},
      perTradeAmount      : {12},
      exitStrategy        : ExitStrategies,
      targetProfitPercent : {20},
      avgLevels           : {1, 2} ]

\* Arguments of runBacktest.
ArgSet ==
    [ initialCapital      : {12, 24},
      perTradeAmount      : {Undefined, 12},
      exitStrategy        : ExitStrategies,
      targetProfitPercent : {0, 100},
      avgLevels           : {1, 2} ]

-----------------------------------------------------------------------------
VARIABLES
    args,                   \* the arguments of runBacktest
    n,                      \* candles.length
    calmDays,               \* days after the first evaluated day whose bar is CalmBar
    flatRun,                \* the input is the flat run with one dip and one breakout
    cagrIn,                 \* the arguments of a CAGR calculation called on its own
    cagrOut,                \* what that calculation returned
    candles,                \* the bars read so far (all of them when n < 21)
    pc,                     \* position of the program
    i,                      \* loop index of runBacktest (0-based, as in the code)
    cash,
    isTracking,
    currentBuyNumber,
    internalOpenPositions,
    maxEquity,
    maxDrawdown,
    trades,
    dailyLog,
    activitiesToday,
    firedDays,              \* history: the days on which the buy signal fired
    result,                 \* what runBacktest returned
    anI,                    \* loop index of analyzeStock
    anIsTracking,           \* isTracking of analyzeStock
    status,
    triggerDate,
    buyTriggerDate,
    analysis                \* what analyzeStock returned

env == <<args, n, calmDays, flatRun, cagrIn, cagrOut>>
simVars == <<cash, isTracking, currentBuyNumber, internalOpenPositions,
             maxEquity, maxDrawdown, trades, dailyLog, activitiesToday,
             firedDays>>
anVars == <<anI, anIsTracking, status, triggerDate, buyTriggerDate, analysis>>
vars == <<env, candles, pc, i, simVars, result, anVars>>

-----------------------------------------------------------------------------
(* Array helpers: the code's indices are 0-based *)

At(cs, k) == cs[k + 1]
Slice(cs, from, to) == SubSeq(cs, from + 1, to)
Last(s) == s[Len(s)]

RECURSIVE MaxHigh(_)
MaxHigh(cs) ==
    IF Len(cs) = 1 THEN cs[1].high
    ELSE LET m == MaxHigh(Tail(cs))
         IN  IF cs[1].high > m THEN cs[1].high ELSE m

RECURSIVE MinLow(_)
MinLow(cs) ==
    IF Len(cs) = 1 THEN cs[1].low
    ELSE LET m == MinLow(Tail(cs))
         IN  IF cs[1].low < m THEN cs[1].low ELSE m

twentyDayHigh(cs, k) == MaxHigh(Slice(cs, k - Lookback, k))
twentyDayLow(cs, k) == MinLow(Slice(cs, k - Lookback, k))

\* A bar's date; dates are unique and ascending.
DateOf(k) == k

\* The bars day k of the input can have.
DayBars(k) ==
    IF flatRun THEN FlatRunBars(k)
    ELSE IF k > Lookback /\ k <= Lookback + calmDays THEN {CalmBar} ELSE BarSet

tradeAmount ==
    IF args.perTradeAmount = Undefined
    THEN RDiv(RInt(args.initialCapital), RInt(50))
    ELSE RInt(args.perTradeAmount)

-----------------------------------------------------------------------------
(* Sums over the open positions and the trades *)

RECURSIVE SumQuantity(_)
SumQuantity(ps) ==
    IF ps = <<>> THEN 0 ELSE ps[1].quantity + SumQuantity(Tail(ps))

RECURSIVE SumBuyPrice(_)
SumBuyPrice(ps) ==
    IF ps = <<>> THEN 0 ELSE ps[1].buyPrice + SumBuyPrice(Tail(ps))

RECURSIVE SumCost(_)
SumCost(ps) ==
    IF ps = <<>> THEN 0
    ELSE ps[1].quantity * ps[1].buyPrice + SumCost(Tail(ps))

RECURSIVE SumProfit(_)
SumProfit(ts) ==
    IF ts = <<>> THEN RInt(0) ELSE RAdd(ts[1].profit, SumProfit(Tail(ts)))

\* The subsequence of s at the indices in keep, in order.
RECURSIVE Filter(_, _, _)
Filter(s, keep, k) ==
    IF k > Len(s) THEN <<>>
    ELSE (IF k \in keep THEN <<s[k]>> ELSE <<>>) \o Filter(s, keep, k + 1)

-----------------------------------------------------------------------------
(* runBacktest: exit evaluation *)

\* A target without the markup.
targetPrice_AtEntry(pos) == RInt(pos.buyPrice)

\* pos.buyPrice * (1 + pos.targetPercent / 100)
targetPrice(pos) ==
    RMul(RInt(pos.buyPrice),
         RAdd(RInt(1), RDiv(RInt(pos.targetPercent), RInt(100))))

\* An average of the entry prices that ignores the quantities.
weightedAvgPrice_Unweighted(ps) ==
    IF SumQuantity(ps) > 0
    THEN RDiv(RInt(SumBuyPrice(ps)), RInt(Len(ps)))
    ELSE RInt(0)

weightedAvgPrice(ps) ==
    IF SumQuantity(ps) > 0
    THEN RDiv(RInt(SumCost(ps)), RInt(SumQuantity(ps)))
    ELSE RInt(0)

aggregateTargetPrice(ps) ==
    RMul(weightedAvgPrice(ps),
         RAdd(RInt(1), RDiv(RInt(ps[1].targetPercent), RInt(100))))

\* Whether the weighted-average branch is taken.
UseWeightedAverage(ps) ==
    args.exitStrategy = "WEIGHTED_AVERAGE" /\ Len(ps) > 0

\* A weighted-average exit that sells position by position, each at its own target.
positionsToClose_PerLot(ps, day) ==
    { j \in 1 .. Len(ps) : RLe(targetPrice(ps[j]), RInt(day.high)) }

\* An individual exit that needs the high to exceed the target.
positionsToClose_Strict(ps, day) ==
    IF UseWeightedAverage(ps)
    THEN IF RLe(aggregateTargetPrice(ps), RInt(day.high))
         THEN 1 .. Len(ps)
         ELSE {}
    ELSE { j \in 1 .. Len(ps) : RLt(targetPrice(ps[j]), RInt(day.high)) }

\* The indices (1-based) of the positions sold on a day.
positionsToClose(ps, day) ==
    IF UseWeightedAverage(ps)
    THEN IF RLe(aggregateTargetPrice(ps), RInt(day.high))
         THEN 1 .. Len(ps)
         ELSE {}
    ELSE { j \in 1 .. Len(ps) : RLe(targetPrice(ps[j]), RInt(day.high)) }

\* The price position j is sold at.
sellPrice(ps, j) ==
    IF UseWeightedAverage(ps)
    THEN aggregateTargetPrice(ps)
    ELSE targetPrice(ps[j])

\* (sellPrice - pos.buyPrice) * pos.quantity
\* A profit per share, not multiplied by the quantity.
profitOf_PerShare(pos, price) == RSub(price, RInt(pos.buyPrice))

profitOf(pos, price) ==
    RMul(RSub(price, RInt(pos.buyPrice)), RInt(pos.quantity))

\* Holding days that do not count the day of the exit.
holdingDaysOf_Exclusive(pos, date) == date - pos.buyDate - 1

holdingDaysOf(pos, date) == date - pos.buyDate

SellTrade(pos, price, date) ==
    [ buyDate       |-> pos.buyDate,
      buyPrice      |-> pos.buyPrice,
      sellDate      |-> date,
      sellPrice     |-> price,
      buyNumber     |-> pos.buyNumber,
      targetPercent |-> pos.targetPercent,
      profit        |-> profitOf(pos, price),
      profitPercent |->
          RMul(RDiv(RSub(price, RInt(pos.buyPrice)), RInt(pos.buyPrice)),
               RInt(100)),
      holdingDays   |-> holdingDaysOf(pos, date) ]

SellActivity(pos, price, date) ==
    [ type         |-> "SELL",
      price        |-> price,
      quantity     |-> pos.quantity,
      amount       |-> RMul(RInt(pos.quantity), price),
      buyNumber    |-> pos.buyNumber,
      profit       |-> profitOf(pos, price),
      date         |-> date,
      holdingDays  |-> holdingDaysOf(pos, date),
      purchaseDate |-> pos.buyDate ]

\* The trades pushed for the positions sold, in the order of the positions.
RECURSIVE SoldTrades(_, _, _, _)
SoldTrades(ps, closing, date, k) ==
    IF k > Len(ps) THEN <<>>
    ELSE (IF k \in closing
          THEN <<SellTrade(ps[k], sellPrice(ps, k), date)>>
          ELSE <<>>) \o SoldTrades(ps, closing, date, k + 1)

RECURSIVE SoldActivities(_, _, _, _)
SoldActivities(ps, closing, date, k) ==
    IF k > Len(ps) THEN <<>>
    ELSE (IF k \in closing
          THEN <<SellActivity(ps[k], sellPrice(ps, k), date)>>
          ELSE <<>>) \o SoldActivities(ps, closing, date, k + 1)

\* The sum of pos.quantity * sellPrice over the positions sold.
\* Proceeds that return the cost of the positions sold, not their sale value.
RECURSIVE Proceeds_AtCost(_, _, _)
Proceeds_AtCost(ps, closing, k) ==
    IF k > Len(ps) THEN RInt(0)
    ELSE RAdd(IF k \in closing
              THEN RInt(ps[k].quantity * ps[k].buyPrice)
              ELSE RInt(0),
              Proceeds_AtCost(ps, closing, k + 1))

RECURSIVE Proceeds(_, _, _)
Proceeds(ps, closing, k) ==
    IF k > Len(ps) THEN RInt(0)
    ELSE RAdd(IF k \in closing
              THEN RMul(RInt(ps[k].quantity), sellPrice(ps, k))
              ELSE RInt(0),
              Proceeds(ps, closing, k + 1))

\* A run that never resets the buy number and the tracking flag.
ResetSequence_Never(ps, buyNumber) == FALSE

\* Whether the buy number and the tracking flag are reset after the exits.
ResetSequence(ps, buyNumber) == Len(ps) = 0 /\ buyNumber > 0

-----------------------------------------------------------------------------
(* runBacktest: entry evaluation *)

\* A touch that needs a low below the window's low.
TouchesLow_Strict(day, low) == day.low < low

\* day.low <= twentyDayLow
TouchesLow(day, low) == day.low <= low

\* A breakout check that accepts a high equal to the window's high.
CrossesHigh_OrEqual(day, high) == day.high >= high

\* day.high > twentyDayHigh
CrossesHigh(day, high) == day.high > high

\* A buy signal that uses the tracking flag as it was before this day's arming.
BuySignal_BeforeArming(tracking, day, high) ==
    isTracking /\ CrossesHigh(day, high)

\* if (isTracking && day.high > twentyDayHigh)
BuySignal(tracking, day, high) == tracking /\ CrossesHigh(day, high)

\* A level limit that admits one level too many.
BelowLevelLimit_Inclusive(buyNumber) == buyNumber <= args.avgLevels

\* if (currentBuyNumber < avgLevels)
BelowLevelLimit(buyNumber) == buyNumber < args.avgLevels

\* A tracking flag that is cleared only by an executed buy.
trackingAfterSignal_OnlyIfBought(tracking, bought) == tracking /\ ~bought

\* isTracking = false, after the buy logic whatever its outcome
trackingAfterSignal(tracking, bought) == FALSE

\* An entry at the day's close.
entryPrice_AtClose(day, high) == day.close

\* buyPrice = twentyDayHigh, the breakout price
entryPrice(day, high) == high

\* A quantity rounded up instead of down.
quantityFor_RoundedUp(buyPrice) == Floor(RDiv(tradeAmount, RInt(buyPrice))) + 1

\* Math.floor(tradeAmount / buyPrice)
quantityFor(buyPrice) == Floor(RDiv(tradeAmount, RInt(buyPrice)))

\* A buy that accepts a quantity of 0.
CanBuy_AnyQuantity(quantity, buyPrice, c) == RLe(RInt(quantity * buyPrice), c)

\* A buy whenever the cash is not negative.
CanBuy_CashNotNegative(quantity, buyPrice, c) == quantity > 0 /\ RLe(RInt(0), c)

\* A buy without the liquidity check.
CanBuy_NoCashCheck(quantity, buyPrice, c) == quantity > 0

CanBuy(quantity, buyPrice, c) ==
    quantity > 0 /\ RLe(RInt(quantity * buyPrice), c)

IsSkipped(quantity, buyPrice, c) ==
    quantity > 0 /\ RLt(c, RInt(quantity * buyPrice))

BuyActivity(buyPrice, quantity, buyNumber, date) ==
    [ type      |-> "BUY",
      price     |-> RInt(buyPrice),
      quantity  |-> quantity,
      amount    |-> RInt(quantity * buyPrice),
      buyNumber |-> buyNumber,
      date      |-> date ]

SkippedActivity(buyPrice, buyNumber, date) ==
    [ type      |-> "SKIPPED",
      price     |-> RInt(buyPrice),
      quantity  |-> 0,
      amount    |-> RInt(0),
      buyNumber |-> buyNumber,
      date      |-> date ]

-----------------------------------------------------------------------------
(* runBacktest: end-of-day accounting *)

\* The open positions valued at their entry prices.
investedAt_AtCost(ps, price) == SumCost(ps)

\* The open positions marked to market at a price.
RECURSIVE investedAt(_, _)
investedAt(ps, price) ==
    IF ps = <<>> THEN 0
    ELSE ps[1].quantity * price + investedAt(Tail(ps), price)

\* ((maxEquity - currentEquity) / maxEquity) * 100
drawdownOf(maxEq, equity) ==
    RMul(RDiv(RSub(maxEq, equity), maxEq), RInt(100))

\* if (drawdown > maxDrawdown) maxDrawdown = drawdown, without the comparison
updatedMaxDrawdown_Latest(old, drawdown) == drawdown

\* if (drawdown > maxDrawdown) maxDrawdown = drawdown
updatedMaxDrawdown(old, drawdown) == IF RLt(old, drawdown) THEN drawdown ELSE old

\* The profit field of a day's entry of the daily log.
dayProfit(log, equity) == RInt(0)

DailyState(date, c, invested, equity, profit, activities) ==
    [ date       |-> date,
      cash       |-> c,
      invested   |-> RInt(invested),
      equity     |-> equity,
      profit     |-> profit,
      activities |-> activities ]

-----------------------------------------------------------------------------
(* runBacktest: final calculation *)

\* An open position valued at its entry price.
OpenPosition_AtEntry(pos, lastPrice) ==
    [ buyDate       |-> pos.buyDate,
      buyPrice      |-> pos.buyPrice,
      quantity      |-> pos.quantity,
      buyNumber     |-> pos.buyNumber,
      targetPercent |-> pos.targetPercent,
      currentPrice  |-> pos.buyPrice,
      currentValue  |-> pos.quantity * pos.buyPrice,
      pnl           |-> 0,
      pnlPercent    |-> RInt(0) ]

OpenPosition(pos, lastPrice) ==
    LET currentValue == pos.quantity * lastPrice
        costBasis == pos.quantity * pos.buyPrice
        pnl == currentValue - costBasis
    IN  [ buyDate       |-> pos.buyDate,
          buyPrice      |-> pos.buyPrice,
          quantity      |-> pos.quantity,
          buyNumber     |-> pos.buyNumber,
          targetPercent |-> pos.targetPercent,
          currentPrice  |-> lastPrice,
          currentValue  |-> currentValue,
          pnl           |-> pnl,
          pnlPercent    |-> RMul(RDiv(RInt(pnl), RInt(costBasis)), RInt(100)) ]

RECURSIVE SumPnl(_)
SumPnl(ops) == IF ops = <<>> THEN 0 ELSE ops[1].pnl + SumPnl(Tail(ops))

RECURSIVE SumCurrentValue(_)
SumCurrentValue(ops) ==
    IF ops = <<>> THEN 0 ELSE ops[1].currentValue + SumCurrentValue(Tail(ops))

\* trades.filter((t) => t.profit > 0).length
winningTradesOf(ts) ==
    Cardinality({ k \in 1 .. Len(ts) : RLt(RInt(0), ts[k].profit) })

\* A count of the losing trades that leaves out the trades of profit 0.
losingTradesOf_Negative(ts) ==
    Cardinality({ k \in 1 .. Len(ts) : RLt(ts[k].profit, RInt(0)) })

\* trades.filter((t) => t.profit <= 0).length
losingTradesOf(ts) ==
    Cardinality({ k \in 1 .. Len(ts) : RLe(ts[k].profit, RInt(0)) })

winRateOf(ts) ==
    IF Len(ts) > 0
    THEN RMul(RDiv(RInt(winningTradesOf(ts)), RInt(Len(ts))), RInt(100))
    ELSE RInt(0)

-----------------------------------------------------------------------------
(* CAGR *)

\* 365.25, the days of a year
DaysPerYear == <<1461, 4>>

RECURSIVE IntPow(_, _)
IntPow(a, p) == IF p = 0 THEN 1 ELSE a * IntPow(a, p - 1)

\* The least r >= from with r^q >= v.
RECURSIVE RootFrom(_, _, _)
RootFrom(v, q, from) ==
    IF IntPow(from, q) >= v THEN from ELSE RootFrom(v, q, from + 1)

\* v is the q-th power of an integer.
HasRoot(v, q) == IntPow(RootFrom(v, q, 0), q) = v

\* NaN
NaN == <<"NaN">>

\* A number is held exactly when it is a rational.
IsRational(v) == Len(v) = 2

\* x^e can be held exactly: a small integer power, or a square or cube root
\* that is rational.
ExactPower(x, e) ==
    IF e[2] = 1
    THEN e[1] <= 2 /\ Abs(x[1]) <= 1000 /\ x[2] <= 1000
    ELSE /\ e[1] = 1 /\ e[2] <= 3
         /\ x[1] > 0 /\ x[1] <= 10000 /\ x[2] <= 10000
         /\ HasRoot(x[1], e[2]) /\ HasRoot(x[2], e[2])

\* Math.pow(x, e) for e > 0.  A power that is not rational is kept as the
\* expression <<x, e, "pow">>.
Pow(x, e) ==
    IF x = RInt(1) THEN RInt(1)
    ELSE IF x = RInt(0) THEN RInt(0)
    ELSE IF x[1] < 0 /\ e[2] # 1 THEN NaN
    ELSE IF ~ExactPower(x, e) THEN <<x, e, "pow">>
    ELSE IF e[2] = 1 THEN <<IntPow(x[1], e[1]), IntPow(x[2], e[1])>>
    ELSE <<RootFrom(x[1], e[2], 0), RootFrom(x[2], e[2], 0)>>

\* (Math.pow(ratio, 1 / years) - 1) * 100.  When the power is not rational
\* the percentage is kept as the expression <<ratio, 1 / years, "percent">>.
AnnualizedPercent(ratio, years) ==
    LET e == RDiv(RInt(1), years)
        growth == Pow(ratio, e)
    IN  IF IsRational(growth) THEN RMul(RSub(growth, RInt(1)), RInt(100))
        ELSE IF growth = NaN THEN NaN
        ELSE <<ratio, e, "percent">>

\* A CAGR that raises to the number of years instead of its inverse.
cagrOf_WrongExponent(initialCapital, finalCapital, durationDays) ==
    LET durationYears == RDiv(durationDays, DaysPerYear)
    IN  IF RLt(RInt(0), durationYears) /\ RLt(RInt(0), finalCapital)
        THEN AnnualizedPercent(RDiv(finalCapital, initialCapital),
                               RDiv(RInt(1), durationYears))
        ELSE RInt(0)

\* The CAGR of runBacktest.
cagrOf(initialCapital, finalCapital, durationDays) ==
    LET durationYears == RDiv(durationDays, DaysPerYear)
    IN  IF RLt(RInt(0), durationYears) /\ RLt(RInt(0), finalCapital)
        THEN AnnualizedPercent(RDiv(finalCapital, initialCapital), durationYears)
        ELSE RInt(0)

\* calculateCAGR of the verification script.
calculateCAGR(initial, final, days) ==
    LET years == RDiv(days, DaysPerYear)
    IN  IF RLe(years, RInt(0)) \/ RLe(initial, RInt(0)) THEN RInt(0)
        ELSE AnnualizedPercent(RDiv(final, initial), years)

\* The arguments of the CAGR calculations.
CagrGrowths == { <<11, 10>>, <<21, 20>>, <<6, 5>>, <<1, 1>>, <<9, 10>>, <<1, 2>> }
CagrYears == { <<1, 2>>, <<1, 1>>, <<2, 1>>, <<3, 1>> }
CagrInitials == { RInt(100), RInt(200), RInt(1000) }

\* initial * growth^years, for a whole number of years or half a year of a
\* growth whose square is the yearly growth.
Compounded(initial, growth, years) ==
    IF years[2] = 1
    THEN RMul(initial, <<IntPow(growth[1], years[1]), IntPow(growth[2], years[1])>>)
    ELSE RMul(initial, growth)

CagrInputs ==
    { [ initial |-> c, final |-> Compounded(c, g, y), days |-> RMul(y, DaysPerYear) ] :
        c \in CagrInitials, g \in CagrGrowths, y \in CagrYears }
    \cup
    { [ initial |-> c, final |-> f, days |-> RMul(y, DaysPerYear) ] :
        c \in CagrInitials, f \in { RInt(0), RInt(-5), RInt(110) },
        y \in { RInt(0), RInt(-1), RInt(1) } }

\* A guard that accepts an input of exactly 20 candles.
TooFewCandles_OffByOne(length) == length < Lookback

\* candles.length < 21, the guard of runBacktest
TooFewCandles(length) == length < MinCandles

\* A trigger date that keeps the first touch of a tracking phase.
triggerDateAfter_KeepsFirst(touches, date, old) == old

\* if (day.low <= dayTwentyDayLow) triggerDate = day.date, while tracking
triggerDateAfter(touches, date, old) == IF touches THEN date ELSE old

\* A status in which the buy trigger wins over the low touch of the same day.
statusAfter_BreakoutWins(touches, crossed, old) ==
    IF crossed THEN "BUY_TRIGGERED" ELSE IF touches THEN "TRACKING" ELSE old

\* The status after a tracking day: the buy trigger is assigned first, the
\* low touch second.
statusAfter(touches, crossed, old) ==
    IF touches THEN "TRACKING" ELSE IF crossed THEN "BUY_TRIGGERED" ELSE old

\* A scan that stays armed after a trigger.
anTrackingAfter_StaysArmed(tracking, crossed) == tracking

\* isTracking = false, on the day of a buy trigger
anTrackingAfter(tracking, crossed) == IF crossed THEN FALSE ELSE tracking

\* candles.length < 21, the guard of analyzeStock
TooFewToAnalyze(length) == length < MinCandles

-----------------------------------------------------------------------------
(* Initial state: runBacktest and analyzeStock are about to be called on an  *)
(* input of n bars, of which the bars before the first evaluated day are     *)
(* known.                                                                    *)

InputLengths(calm) ==
    ShortLengths \cup { Lookback + calm + k : k \in 1 .. MaxDays }

\* The variables of the two functions before they are called.
NotStarted ==
    /\ i = 0
    /\ cash = RInt(0)
    /\ isTracking = FALSE
    /\ currentBuyNumber = 0
    /\ internalOpenPositions = <<>>
    /\ maxEquity = RInt(0)
    /\ maxDrawdown = RInt(0)
    /\ trades = <<>>
    /\ dailyLog = <<>>
    /\ activitiesToday = <<>>
    /\ firedDays = {}
    /\ result = Null
    /\ anI = 0
    /\ anIsTracking = FALSE
    /\ status = "NEUTRAL"
    /\ triggerDate = Undefined
    /\ buyTriggerDate = Undefined
    /\ analysis = Null

\* runBacktest is about to be called on an input of one of the lengths.
InitOn(calm, flat, argSet, lengths) ==
    /\ args \in argSet
    /\ calmDays = calm
    /\ flatRun = flat
    /\ n \in lengths
    /\ \E b \in PrefixBars :
           candles = [ k \in 1 .. (IF n < Lookback THEN n ELSE Lookback) |-> b ]
    /\ cagrIn = Null
    /\ cagrOut = Null
    /\ pc = "call"
    /\ NotStarted

InitWith(calm, argSet) == InitOn(calm, FALSE, argSet, InputLengths(calm))

Init == InitWith(0, ArgSet)

\* The inputs with a calm stretch of Lookback days after the first evaluated day.
InitCalm == InitWith(Lookback, { a \in ArgSet : a.perTradeAmount # Undefined })

-----------------------------------------------------------------------------
(* runBacktest *)

\* if (candles.length < 21) return null
InsufficientData ==
    /\ pc = "call"
    /\ TooFewCandles(n)
    /\ result' = Null
    /\ pc' = "analyze"
    /\ UNCHANGED <<env, candles, i, simVars, anVars>>

\* The declarations before the day loop.
BeginBacktest ==
    /\ pc = "call"
    /\ ~TooFewCandles(n)
    /\ cash' = RInt(args.initialCapital)
    /\ isTracking' = FALSE
    /\ currentBuyNumber' = 0
    /\ internalOpenPositions' = <<>>
    /\ maxEquity' = RInt(args.initialCapital)
    /\ maxDrawdown' = RInt(0)
    /\ trades' = <<>>
    /\ dailyLog' = <<>>
    /\ firedDays' = {}
    /\ i' = Lookback
    /\ pc' = "sells"
    /\ UNCHANGED <<env, candles, activitiesToday, result, anVars>>

\* One day of the loop, part 2: the bar of day i is read and the sells are checked.
CheckSells ==
    /\ pc = "sells"
    /\ i < n
    /\ \E day \in DayBars(i) :
        LET ps == internalOpenPositions
            closing == positionsToClose(ps, day)
            left == Filter(ps, (1 .. Len(ps)) \ closing, 1)
            reset == ResetSequence(left, currentBuyNumber)
        IN  /\ candles' = Append(candles, day)
            /\ trades' = trades \o SoldTrades(ps, closing, DateOf(i), 1)
            /\ activitiesToday' = SoldActivities(ps, closing, DateOf(i), 1)
            /\ cash' = RAdd(cash, Proceeds(ps, closing, 1))
            /\ internalOpenPositions' = left
            /\ currentBuyNumber' = (IF reset THEN 0 ELSE currentBuyNumber)
            /\ isTracking' = (IF reset THEN FALSE ELSE isTracking)
    /\ pc' = "entry"
    /\ UNCHANGED <<env, i, maxEquity, maxDrawdown, dailyLog, firedDays,
                   result, anVars>>

\* One day of the loop, part 3: the entry signals.
CheckEntry ==
    /\ pc = "entry"
    /\ LET day == At(candles, i)
           high == twentyDayHigh(candles, i)
           low == twentyDayLow(candles, i)
           tracking == isTracking \/ TouchesLow(day, low)
           buyPrice == entryPrice(day, high)
           quantity == quantityFor(buyPrice)
           buyNumber == currentBuyNumber + 1
           bought == BelowLevelLimit(currentBuyNumber)
                         /\ CanBuy(quantity, buyPrice, cash)
       IN  IF BuySignal(tracking, day, high)
           THEN /\ isTracking' = trackingAfterSignal(tracking, bought)
                /\ firedDays' = firedDays \cup {DateOf(i)}
                /\ IF BelowLevelLimit(currentBuyNumber)
                   THEN /\ currentBuyNumber' = buyNumber
                        /\ IF CanBuy(quantity, buyPrice, cash)
                           THEN /\ cash' = RSub(cash, RInt(quantity * buyPrice))
                                /\ internalOpenPositions' =
                                       Append(internalOpenPositions,
                                              [ buyDate       |-> DateOf(i),
                                                buyPrice      |-> buyPrice,
                                                quantity      |-> quantity,
                                                buyNumber     |-> buyNumber,
                                                targetPercent |-> args.targetProfitPercent ])
                                /\ activitiesToday' =
                                       Append(activitiesToday,
                                              BuyActivity(buyPrice, quantity, buyNumber, DateOf(i)))
                           ELSE /\ activitiesToday' =
                                       (IF IsSkipped(quantity, buyPrice, cash)
                                        THEN Append(activitiesToday,
                                                    SkippedActivity(buyPrice, buyNumber, DateOf(i)))
                                        ELSE activitiesToday)
                                /\ UNCHANGED <<cash, internalOpenPositions>>
                   ELSE UNCHANGED <<currentBuyNumber, cash, internalOpenPositions,
                                    activitiesToday>>
           ELSE /\ isTracking' = tracking
                /\ UNCHANGED <<currentBuyNumber, cash, internalOpenPositions,
                               activitiesToday, firedDays>>
    /\ pc' = "accounting"
    /\ UNCHANGED <<env, candles, i, maxEquity, maxDrawdown, trades,
                   dailyLog, result, anVars>>

\* One day of the loop, part 4: end-of-day accounting.
EndOfDay ==
    /\ pc = "accounting"
    /\ LET day == At(candles, i)
           invested == investedAt(internalOpenPositions, day.close)
           currentEquity == RAdd(cash, RInt(invested))
           newMax == IF RLt(maxEquity, currentEquity) THEN currentEquity ELSE maxEquity
           drawdown == drawdownOf(newMax, currentEquity)
       IN  /\ maxEquity' = newMax
           /\ maxDrawdown' = updatedMaxDrawdown(maxDrawdown, drawdown)
           /\ dailyLog' = Append(dailyLog,
                                 DailyState(DateOf(i), cash, invested, currentEquity,
                                            dayProfit(dailyLog, currentEquity),
                                            activitiesToday))
    /\ i' = i + 1
    /\ pc' = "sells"
    /\ UNCHANGED <<env, candles, cash, isTracking, currentBuyNumber,
                   internalOpenPositions, trades, activitiesToday, firedDays,
                   result, anVars>>

\* The final calculation and the return.
Finalize ==
    /\ pc = "sells"
    /\ ~(i < n)
    /\ LET lastPrice == At(candles, n - 1).close
           openPositions == [ k \in 1 .. Len(internalOpenPositions) |->
                                  OpenPosition(internalOpenPositions[k], lastPrice) ]
           closingPositionValue == SumCurrentValue(openPositions)
           finalCapital == RAdd(cash, RInt(closingPositionValue))
           totalProfit == RSub(finalCapital, RInt(args.initialCapital))
       IN  result' =
               [ startDate          |-> DateOf(Lookback),
                 endDate            |-> DateOf(n - 1),
                 initialCapital     |-> RInt(args.initialCapital),
                 finalCapital       |-> finalCapital,
                 totalTrades        |-> Len(trades),
                 winningTrades      |-> winningTradesOf(trades),
                 losingTrades       |-> losingTradesOf(trades),
                 winRate            |-> winRateOf(trades),
                 totalProfit        |-> totalProfit,
                 totalProfitPercent |->
                     RMul(RDiv(totalProfit, RInt(args.initialCapital)), RInt(100)),
                 cagr               |->
                     cagrOf(RInt(args.initialCapital), finalCapital,
                            RInt(DateOf(n - 1) - DateOf(Lookback))),
                 realizedProfit     |-> SumProfit(trades),
                 unrealizedProfit   |-> RInt(SumPnl(openPositions)),
                 blockedCapital     |-> RInt(SumCost(openPositions)),
                 maxDrawdown        |-> maxDrawdown,
                 trades             |-> trades,
                 openPositions      |-> openPositions,
                 dailyLog           |-> dailyLog ]
    /\ pc' = "analyze"
    /\ UNCHANGED <<env, candles, i, simVars, anVars>>

-----------------------------------------------------------------------------
(* analyzeStock, called on the same candles *)

\* if (candles.length < 21) return null
AnalyzeInsufficient ==
    /\ pc = "analyze"
    /\ TooFewToAnalyze(n)
    /\ analysis' = Null
    /\ pc' = "done"
    /\ UNCHANGED <<env, candles, i, simVars, result,
                   anI, anIsTracking, status, triggerDate, buyTriggerDate>>

\* The declarations before the scan of the history.
BeginAnalysis ==
    /\ pc = "analyze"
    /\ ~TooFewToAnalyze(n)
    /\ status' = "NEUTRAL"
    /\ triggerDate' = Undefined
    /\ buyTriggerDate' = Undefined
    /\ anIsTracking' = FALSE
    /\ anI' = Lookback
    /\ pc' = "scan"
    /\ UNCHANGED <<env, candles, i, simVars, result, analysis>>

\* One day of the scan of the history.
AnalyzeDay ==
    /\ pc = "scan"
    /\ anI < n
    /\ LET day == At(candles, anI)
           dayTwentyDayHigh == twentyDayHigh(candles, anI)
           dayTwentyDayLow == twentyDayLow(candles, anI)
       IN  IF ~anIsTracking
           THEN IF TouchesLow(day, dayTwentyDayLow)
                THEN /\ anIsTracking' = TRUE
                     /\ triggerDate' = DateOf(anI)
                     /\ status' = "TRACKING"
                     /\ UNCHANGED buyTriggerDate
                ELSE UNCHANGED <<anIsTracking, triggerDate, status, buyTriggerDate>>
           ELSE /\ anIsTracking' =
                    anTrackingAfter(anIsTracking, CrossesHigh(day, dayTwentyDayHigh))
                /\ buyTriggerDate' = (IF CrossesHigh(day, dayTwentyDayHigh)
                                      THEN DateOf(anI) ELSE buyTriggerDate)
                /\ triggerDate' =
                    triggerDateAfter(TouchesLow(day, dayTwentyDayLow),
                                     DateOf(anI), triggerDate)
                /\ status' =
                    statusAfter(TouchesLow(day, dayTwentyDayLow),
                                CrossesHigh(day, dayTwentyDayHigh), status)
    /\ anI' = anI + 1
    /\ UNCHANGED <<env, candles, pc, i, simVars, result, analysis>>

\* The return of analyzeStock.
AnalyzeReturn ==
    /\ pc = "scan"
    /\ ~(anI < n)
    /\ LET latest == At(candles, n - 1)
           high == twentyDayHigh(candles, n - 1)
           low == twentyDayLow(candles, n - 1)
           currentPrice == latest.close
       IN  analysis' =
               [ status            |-> status,
                 currentPrice      |-> currentPrice,
                 twentyDayHigh     |-> high,
                 twentyDayLow      |-> low,
                 triggerDate       |-> triggerDate,
                 buyTriggerDate    |-> buyTriggerDate,
                 distanceToTrigger |->
                     RMul(RDiv(RInt(high - currentPrice), RInt(currentPrice)),
                          RInt(100)) ]
    /\ pc' = "done"
    /\ UNCHANGED <<env, candles, i, simVars, result,
                   anI, anIsTracking, status, triggerDate, buyTriggerDate>>

-----------------------------------------------------------------------------
Next ==
    \/ InsufficientData
    \/ BeginBacktest
    \/ CheckSells
    \/ CheckEntry
    \/ EndOfDay
    \/ Finalize
    \/ AnalyzeInsufficient
    \/ BeginAnalysis
    \/ AnalyzeDay
    \/ AnalyzeReturn

Spec == Init /\ [][Next]_vars

-----------------------------------------------------------------------------
(* The flat run with one dip and one breakout, among the other inputs *)

InitFlatRun == Init \/ InitOn(0, TRUE, ArgSet, {FlatRunLength})

SpecFlatRun == InitFlatRun /\ [][Next]_vars

-----------------------------------------------------------------------------
(* The CAGR calculations called on their own, among the runs of runBacktest *)

InitCagr ==
    \/ Init
    \/ /\ cagrIn \in [ fn : {"calculateCAGR", "runBacktest"} ] \X CagrInputs
       /\ cagrOut = Null
       /\ args = Null /\ n = 0 /\ calmDays = 0 /\ flatRun = FALSE
       /\ candles = <<>>
       /\ pc = "cagr"
       /\ NotStarted

\* calculateCAGR(initial, final, days)
CallCalculateCAGR ==
    /\ pc = "cagr"
    /\ cagrIn[1].fn = "calculateCAGR"
    /\ cagrOut' = calculateCAGR(cagrIn[2].initial, cagrIn[2].final, cagrIn[2].days)
    /\ pc' = "done"
    /\ UNCHANGED <<args, n, calmDays, flatRun, cagrIn, candles, i, simVars,
                   result, anVars>>

\* The CAGR calculation of runBacktest on a capital and a duration.
CallBacktestCAGR ==
    /\ pc = "cagr"
    /\ cagrIn[1].fn = "runBacktest"
    /\ cagrOut' = cagrOf(cagrIn[2].initial, cagrIn[2].final, cagrIn[2].days)
    /\ pc' = "done"
    /\ UNCHANGED <<args, n, calmDays, flatRun, cagrIn, candles, i, simVars,
                   result, anVars>>

NextCagr ==
    \/ Next
    \/ CallCalculateCAGR
    \/ CallBacktestCAGR

SpecCagr == InitCagr /\ [][NextCagr]_vars

-----------------------------------------------------------------------------
(* analyzeStock called on its own, on longer inputs *)

InitAnalyze ==
    /\ args = Null /\ calmDays = 0 /\ flatRun = FALSE
    /\ cagrIn = Null /\ cagrOut = Null
    /\ n \in ShortLengths \cup { Lookback + k : k \in 1 .. MaxScanDays }
    /\ \E b \in PrefixBars :
           IF n <= Lookback THEN candles = [ k \in 1 .. n |-> b ]
           ELSE \E tail \in [ 1 .. (n - Lookback) -> BarSet ] :
                    candles = [ k \in 1 .. Lookback |-> b ] \o tail
    /\ pc = "analyze"
    /\ NotStarted

NextAnalyze ==
    \/ AnalyzeInsufficient
    \/ BeginAnalysis
    \/ AnalyzeDay
    \/ AnalyzeReturn

SpecAnalyze == InitAnalyze /\ [][NextAnalyze]_vars

SpecCalm == InitCalm /\ [][Next]_vars

\* The inputs with a calm stretch, with the targets of ArgSet and with a
\* target of 20 percent.
InitLowTarget == InitCalm \/ InitWith(Lookback, ArgSetLowTarget)

SpecLowTarget == InitLowTarget /\ [][Next]_vars

-----------------------------------------------------------------------------
(* Properties *)

\* runBacktest has returned a result.
Returned == pc \in {"analyze", "scan", "done"} /\ result # Null

\* The highest high of the 20 bars before day k.
WindowHigh(k) ==
    CHOOSE h \in { At(candles, j).high : j \in (k - Lookback) .. (k - 1) } :
        \A j \in (k - Lookback) .. (k - 1) : At(candles, j).high <= h

\* The lowest low of the 20 bars before day k.
WindowLow(k) ==
    CHOOSE l \in { At(candles, j).low : j \in (k - Lookback) .. (k - 1) } :
        \A j \in (k - Lookback) .. (k - 1) : At(candles, j).low >= l

\* The value of the lots ps at a price, as a sum over the lots.
RECURSIVE ValueAt(_, _, _)
ValueAt(ps, price, k) ==
    IF k > Len(ps) THEN 0 ELSE ps[k].quantity * price + ValueAt(ps, price, k + 1)

\* The activities of a kind among acts.
OfType(acts, kind) == { k \in 1 .. Len(acts) : acts[k].type = kind }

\* The exit evaluation of day i takes place in this step.
SellsStep == pc = "sells" /\ pc' = "entry"

\* The entry evaluation of day i takes place in this step.
EntryStep == pc = "entry" /\ pc' = "accounting"

\* The trades pushed in this step.
NewTrades == SubSeq(trades', Len(trades) + 1, Len(trades'))

\* C1: at the end of every simulated day, the entry appended to the daily
\* ledger has equity = cash + sum over the open lots of quantity x the day's
\* close, cash and lots being those left by the day's exits and entry.
C1_EquityIsCashPlusMarkedLots ==
    (pc = "sells" /\ dailyLog # <<>>) =>
        LET entry == Last(dailyLog)
            close == At(candles, i - 1).close
            marked == ValueAt(internalOpenPositions, close, 1)
        IN  /\ entry.date = DateOf(i - 1)
            /\ entry.cash = cash
            /\ entry.invested = RInt(marked)
            /\ entry.equity = RAdd(cash, RInt(marked))

\* C1 witness: a ledger day closed with one lot sold earlier, one lot still
\* open and marked at a close that differs from its entry price.
C1_Witness ==
    /\ pc = "sells"
    /\ dailyLog # <<>>
    /\ trades # <<>>
    /\ internalOpenPositions # <<>>
    /\ At(candles, i - 1).close # internalOpenPositions[1].buyPrice
    /\ Last(dailyLog).equity # RInt(args.initialCapital)

\* C2: in the returned result, the profit field of ledger entry k is
\* equity[k] - equity[k-1], and 0 for the first entry.
C2_DayProfitIsEquityChange ==
    Returned =>
        \A k \in 1 .. Len(result.dailyLog) :
            result.dailyLog[k].profit =
                IF k = 1 THEN RInt(0)
                ELSE RSub(result.dailyLog[k].equity, result.dailyLog[k - 1].equity)

\* C3: in WEIGHTED_AVERAGE mode, on a day whose high reaches the
\* quantity-weighted average entry price x (1 + target%/100), every lot open
\* at the start of the day is closed: one trade and one SELL activity per lot,
\* all with the day's date and one exit price, and no lot stays open; on any
\* other day no lot is closed.
C3_Step ==
    (SellsStep /\ args.exitStrategy = "WEIGHTED_AVERAGE"
               /\ internalOpenPositions # <<>>) =>
        LET ps == internalOpenPositions
            day == Last(candles')
            \* high >= (sum q*p / sum q) * (100 + pct) / 100, cross-multiplied
            fires ==
                day.high * 100 * SumQuantity(ps)
                    >= SumCost(ps) * (100 + args.targetProfitPercent)
        IN  IF fires
            THEN /\ internalOpenPositions' = <<>>
                 /\ Len(NewTrades) = Len(ps)
                 /\ Len(activitiesToday') = Len(ps)
                 /\ \A k \in 1 .. Len(ps) :
                        /\ NewTrades[k].buyDate = ps[k].buyDate
                        /\ NewTrades[k].buyPrice = ps[k].buyPrice
                        /\ NewTrades[k].sellDate = DateOf(i)
                        /\ NewTrades[k].sellPrice = NewTrades[1].sellPrice
                        /\ activitiesToday'[k].type = "SELL"
                        /\ activitiesToday'[k].purchaseDate = ps[k].buyDate
                        /\ activitiesToday'[k].date = DateOf(i)
                        /\ activitiesToday'[k].price = NewTrades[1].sellPrice
            ELSE /\ internalOpenPositions' = ps
                 /\ NewTrades = <<>>
                 /\ activitiesToday' = <<>>

\* C3: every exit evaluation in WEIGHTED_AVERAGE mode closes all open lots together or none.
C3_AllLotsCloseTogether == [][C3_Step]_vars

\* C3 witness: after the exit evaluation of a WEIGHTED_AVERAGE day, two lots
\* bought at different prices have been sold and no lot is open.
C3_Witness ==
    /\ pc = "entry"
    /\ args.exitStrategy = "WEIGHTED_AVERAGE"
    /\ internalOpenPositions = <<>>
    /\ Len(activitiesToday) = 2
    /\ Len(trades) >= 2
    /\ trades[Len(trades)].buyPrice # trades[Len(trades) - 1].buyPrice
    /\ trades[Len(trades)].sellPrice = trades[Len(trades) - 1].sellPrice

\* The lots of ps whose own target price the high reaches:
\* high >= buyPrice * (100 + targetPercent) / 100.
ReachedLots(ps, high) ==
    { j \in 1 .. Len(ps) :
          high * 100 >= ps[j].buyPrice * (100 + ps[j].targetPercent) }

\* C4: in LIFO mode a lot is closed on a day exactly if the day's high
\* reaches its own target price entryPrice x (1 + targetPercent/100), whatever
\* the other lots do, and it is closed at that price.
C4_Step ==
    (SellsStep /\ args.exitStrategy = "LIFO") =>
        LET ps == internalOpenPositions
            day == Last(candles')
            hit == ReachedLots(ps, day.high)
        IN  /\ internalOpenPositions' = Filter(ps, (1 .. Len(ps)) \ hit, 1)
            /\ Len(NewTrades) = Cardinality(hit)
            /\ \A j \in hit :
                   \E k \in 1 .. Len(NewTrades) :
                       /\ NewTrades[k].buyDate = ps[j].buyDate
                       /\ NewTrades[k].sellDate = DateOf(i)
                       /\ NewTrades[k].sellPrice =
                              Norm(ps[j].buyPrice * (100 + ps[j].targetPercent), 100)

\* C4: every exit evaluation in LIFO mode closes exactly the lots whose own target is reached.
C4_LotsCloseIndependently == [][C4_Step]_vars

\* C4 witness: after the exit evaluation of a LIFO day, a lot entered later
\* at a lower target price has been sold while an older lot with a higher
\* target price is still open.
C4_Witness ==
    /\ pc = "entry"
    /\ args.exitStrategy = "LIFO"
    /\ \E a \in 1 .. Len(activitiesToday) :
       \E k \in 1 .. Len(internalOpenPositions) :
           /\ activitiesToday[a].type = "SELL"
           /\ internalOpenPositions[k].buyDate < activitiesToday[a].purchaseDate
           /\ RLt(activitiesToday[a].price,
                  Norm(internalOpenPositions[k].buyPrice
                           * (100 + internalOpenPositions[k].targetPercent), 100))

\* No evaluated day has a high above the highest high of its 20 preceding bars.
NoBreakoutEver ==
    \A k \in Lookback .. (Len(candles) - 1) : At(candles, k).high <= WindowHigh(k)

\* C5: when no evaluated day breaks its trailing 20-bar high, the result has
\* no trade, no open position and no activity, cash is the initial capital on
\* every ledger day and finalCapital = initialCapital.
C5_NoBreakoutNoTrade ==
    (Returned /\ NoBreakoutEver) =>
        /\ result.totalTrades = 0
        /\ result.trades = <<>>
        /\ result.openPositions = <<>>
        /\ Len(result.dailyLog) = n - Lookback
        /\ \A k \in 1 .. Len(result.dailyLog) :
               /\ result.dailyLog[k].activities = <<>>
               /\ result.dailyLog[k].cash = RInt(args.initialCapital)
        /\ result.finalCapital = RInt(args.initialCapital)

\* C5 witness: a returned run over several days, none a breakout, in which a
\* day touched its trailing low (tracking was armed) under either exit mode.
C5_Witness ==
    /\ Returned
    /\ NoBreakoutEver
    /\ n >= MinCandles + 1
    /\ isTracking
    /\ \E k \in Lookback .. (n - 1) : At(candles, k) \notin PrefixBars

\* The entry check of day i fires: tracking is armed (before, or by the day's
\* own low touching the trailing low) and the day's high exceeds the trailing high.
EntryCheckFires ==
    /\ isTracking \/ At(candles, i).low <= WindowLow(i)
    /\ At(candles, i).high > WindowHigh(i)

\* floor(perTradeAmount / window.high)
EntryQuantity == tradeAmount[1] \div (tradeAmount[2] * WindowHigh(i))

\* An entry attempt below the level limit with a quantity the cash cannot pay.
SkippedAttempt ==
    /\ EntryStep
    /\ EntryCheckFires
    /\ currentBuyNumber < args.avgLevels
    /\ EntryQuantity > 0
    /\ cash[1] < EntryQuantity * WindowHigh(i) * cash[2]

\* C6: an entry attempt with a positive quantity that the cash cannot pay
\* records exactly one SKIPPED activity and no BUY for the day, adds no lot and
\* leaves the cash unchanged.
C6_Step ==
    SkippedAttempt =>
        /\ Cardinality(OfType(activitiesToday', "SKIPPED")) = 1
        /\ OfType(activitiesToday', "BUY") = {}
        /\ Len(activitiesToday') = Len(activitiesToday) + 1
        /\ Last(activitiesToday').type = "SKIPPED"
        /\ Last(activitiesToday').date = DateOf(i)
        /\ internalOpenPositions' = internalOpenPositions
        /\ cash' = cash

\* C6: every entry attempt the cash cannot pay is recorded as one SKIPPED activity and buys nothing.
C6_InsufficientCashIsSkipped == [][C6_Step]_vars

\* C6 witness: the entry evaluation of a day has recorded a SKIPPED activity
\* while a lot bought earlier holds the cash.
C6_Witness ==
    /\ pc = "accounting"
    /\ OfType(activitiesToday, "SKIPPED") # {}
    /\ internalOpenPositions # <<>>
    /\ RLt(cash, RInt(args.initialCapital))

\* C7: a skipped entry attempt changes nothing but the tracking flag; the
\* buy number after it is the buy number before it.
C7_Step ==
    SkippedAttempt =>
        /\ currentBuyNumber' = currentBuyNumber
        /\ cash' = cash
        /\ internalOpenPositions' = internalOpenPositions
        /\ trades' = trades
        /\ maxEquity' = maxEquity
        /\ maxDrawdown' = maxDrawdown

\* C7: every skipped entry attempt leaves the buy number and the rest of the state as they were.
C7_SkipKeepsBuyNumber == [][C7_Step]_vars

\* C8: for fewer than 21 bars analyzeStock and runBacktest both return null
\* and nothing of a run was produced; for 21 bars or more both return a result.
C8_InsufficientDataIsNull ==
    (pc = "done") =>
        IF n < 21
        THEN /\ result = Null
             /\ analysis = Null
             /\ trades = <<>>
             /\ dailyLog = <<>>
             /\ status = "NEUTRAL"
        ELSE /\ result # Null
             /\ analysis # Null
             /\ Len(result.dailyLog) = n - 20

\* C8 witness: both calls have returned null on an input of 10 bars.
C8_Witness ==
    /\ pc = "done"
    /\ n = 10
    /\ Len(candles) = 10
    /\ result = Null
    /\ analysis = Null

\* C9: winningTrades counts the trades of profit > 0, losingTrades those of
\* profit <= 0, they add up to totalTrades = the length of the trade list, and
\* winRate is 0 when there is no trade.
C9_WinLossClassification ==
    Returned =>
        LET ts == result.trades
            positive == { k \in 1 .. Len(ts) : ts[k].profit[1] > 0 }
            others == { k \in 1 .. Len(ts) : ts[k].profit[1] <= 0 }
        IN  /\ result.winningTrades = Cardinality(positive)
            /\ result.losingTrades = Cardinality(others)
            /\ result.winningTrades + result.losingTrades = result.totalTrades
            /\ result.totalTrades = Len(ts)
            /\ (Len(ts) = 0 => result.winRate = RInt(0))

\* C9 witness: a result with a trade of profit exactly 0, counted as losing.
C9_Witness ==
    /\ Returned
    /\ \E k \in 1 .. Len(result.trades) : result.trades[k].profit = RInt(0)
    /\ result.losingTrades >= 1
    /\ result.winningTrades = 0

\* The highest of initialCapital and the equities of ledger days 1 .. k.
RECURSIVE MaxEquitySoFar(_, _)
MaxEquitySoFar(log, k) ==
    IF k = 0 THEN RInt(args.initialCapital)
    ELSE LET m == MaxEquitySoFar(log, k - 1)
         IN  IF RLt(m, log[k].equity) THEN log[k].equity ELSE m

\* (maxEquitySoFar - equity) / maxEquitySoFar x 100 of ledger day k.
DrawdownOfDay(log, k) ==
    LET m == MaxEquitySoFar(log, k)
    IN  RMul(RDiv(RSub(m, log[k].equity), m), RInt(100))

\* C10: maxDrawdown is >= 0 and >= the drawdown of every ledger day against
\* the highest equity so far, and it is the drawdown of some day or 0.
C10_MaxDrawdownBounds ==
    Returned =>
        LET log == result.dailyLog
        IN  /\ RLe(RInt(0), result.maxDrawdown)
            /\ \A k \in 1 .. Len(log) :
                   RLe(DrawdownOfDay(log, k), result.maxDrawdown)
            /\ \/ result.maxDrawdown = RInt(0)
               \/ \E k \in 1 .. Len(log) :
                      result.maxDrawdown = DrawdownOfDay(log, k)

\* C10 witness: a result whose equity fell below an earlier value and then
\* rose above the initial capital, so that the last day's drawdown is smaller
\* than the reported maximum.
C10_Witness ==
    /\ Returned
    /\ RLt(RInt(0), result.maxDrawdown)
    /\ RLt(RInt(args.initialCapital), Last(result.dailyLog).equity)
    /\ RLt(DrawdownOfDay(result.dailyLog, Len(result.dailyLog)), result.maxDrawdown)

-----------------------------------------------------------------------------
(* Entries, levels and the tracking flag *)

\* The activities of a kind in a ledger, as pairs <<ledger day, position>>.
LoggedOfType(log, kind) ==
    UNION { { <<d, k>> : k \in OfType(log[d].activities, kind) } :
                d \in 1 .. Len(log) }

\* The entry check fires on a day without open lots, with a positive quantity
\* that the cash can pay.
FirstEntry ==
    /\ EntryStep
    /\ EntryCheckFires
    /\ internalOpenPositions = <<>>
    /\ EntryQuantity > 0
    /\ EntryQuantity * WindowHigh(i) * cash[2] <= cash[1]

\* C11: an entry check that fires without open lots, with a positive
\* quantity the cash can pay, records exactly one BUY that day, at the
\* trailing 20-bar high, for floor(perTradeAmount / high) shares, with
\* sequence number 1, and opens that lot.
C11_Step ==
    FirstEntry =>
        LET buys == OfType(activitiesToday', "BUY")
        IN  /\ Cardinality(buys) = 1
            /\ OfType(activitiesToday', "SKIPPED") = {}
            /\ \A k \in buys :
                   /\ activitiesToday'[k].price = RInt(WindowHigh(i))
                   /\ activitiesToday'[k].quantity = EntryQuantity
                   /\ activitiesToday'[k].buyNumber = 1
                   /\ activitiesToday'[k].date = DateOf(i)
            /\ Len(internalOpenPositions') = 1
            /\ internalOpenPositions'[1].buyPrice = WindowHigh(i)
            /\ internalOpenPositions'[1].quantity = EntryQuantity
            /\ internalOpenPositions'[1].buyNumber = 1
            /\ internalOpenPositions'[1].buyDate = DateOf(i)

\* C11, the flat run: when the trade amount buys at least one share at the
\* flat high and the capital pays it, the ledger of the run has exactly one
\* BUY, on the day of the breakout, at the flat high, with sequence number 1.
C11_FlatRunHasOneBuy ==
    (flatRun /\ Returned) =>
        LET price == WindowHigh(Lookback + 2)
            quantity == tradeAmount[1] \div (tradeAmount[2] * price)
            log == result.dailyLog
            buys == LoggedOfType(log, "BUY")
        IN  (quantity > 0 /\ quantity * price <= args.initialCapital) =>
                /\ Cardinality(buys) = 1
                /\ \A dk \in buys :
                       LET a == log[dk[1]].activities[dk[2]]
                       IN  /\ a.date = DateOf(Lookback + 2)
                           /\ a.price = RInt(price)
                           /\ a.quantity = quantity
                           /\ a.buyNumber = 1

\* C11: the first entry of a cycle is one BUY at the trailing 20-bar high with
\* sequence number 1, and it is the only BUY of the flat run.
C11_FirstEntryIsOneBuy == [][C11_Step]_vars /\ []C11_FlatRunHasOneBuy

\* C11 witness: the flat run has returned with its one BUY on the breakout day.
C11_Witness ==
    /\ flatRun
    /\ Returned
    /\ Cardinality(LoggedOfType(result.dailyLog, "BUY")) = 1
    /\ Len(result.dailyLog) = FlatRunLength - Lookback
    /\ \E d \in 1 .. Len(result.dailyLog) :
           /\ result.dailyLog[d].date = DateOf(Lookback + 2)
           /\ OfType(result.dailyLog[d].activities, "BUY") # {}

\* runBacktest is in its day loop or has returned a result.
Simulating == pc \in {"sells", "entry", "accounting"} \/ Returned

\* C12, the counts: the open lots are no more than the buy number, the buy
\* number is no more than avgLevels, and no lot, open or closed, and no BUY
\* of the ledger carries a number above avgLevels.
C12_Levels ==
    Simulating =>
        /\ Len(internalOpenPositions) <= currentBuyNumber
        /\ currentBuyNumber <= args.avgLevels
        /\ \A k \in 1 .. Len(internalOpenPositions) :
               internalOpenPositions[k].buyNumber \in 1 .. args.avgLevels
        /\ \A k \in 1 .. Len(trades) : trades[k].buyNumber \in 1 .. args.avgLevels
        /\ \A dk \in LoggedOfType(dailyLog, "BUY") :
               dailyLog[dk[1]].activities[dk[2]].buyNumber \in 1 .. args.avgLevels

\* C12, the cycle: the buy number goes up by one at a time and returns to 0
\* only when no lot is open, and a step opens at most one lot, which takes the
\* new buy number; so the lots opened between two resets carry distinct
\* numbers of 1 .. avgLevels.
C12_Step ==
    /\ currentBuyNumber' # currentBuyNumber =>
           \/ currentBuyNumber' = currentBuyNumber + 1
           \/ currentBuyNumber' = 0 /\ internalOpenPositions' = <<>>
    /\ Len(internalOpenPositions') > Len(internalOpenPositions) =>
           /\ Len(internalOpenPositions') = Len(internalOpenPositions) + 1
           /\ currentBuyNumber' = currentBuyNumber + 1
           /\ Last(internalOpenPositions').buyNumber = currentBuyNumber'
           /\ \A k \in 1 .. Len(internalOpenPositions) :
                  internalOpenPositions[k].buyNumber < currentBuyNumber'

\* C12: the open lots never outnumber the buy number, the buy number never
\* exceeds avgLevels, and a pyramiding cycle opens at most avgLevels lots, in
\* both exit modes.
C12_LevelsAreCapped == []C12_Levels /\ [][C12_Step]_vars

\* C12 witness: in LIFO mode a day has ended with the buy number at avgLevels
\* while a lot of the cycle is closed and a later lot of it is still open.
C12_Witness ==
    /\ pc = "sells"
    /\ args.exitStrategy = "LIFO"
    /\ currentBuyNumber = args.avgLevels
    /\ Len(internalOpenPositions) < currentBuyNumber
    /\ \E k \in 1 .. Len(internalOpenPositions), t \in 1 .. Len(trades) :
           /\ trades[t].buyNumber < internalOpenPositions[k].buyNumber
           /\ trades[t].buyDate < internalOpenPositions[k].buyDate
           /\ trades[t].sellDate > internalOpenPositions[k].buyDate

-----------------------------------------------------------------------------
(* analyzeStock: the day that is both a breakout and a low touch *)

\* The scan processes day anI in this step.
ScanStep == pc = "scan" /\ anI' = anI + 1

\* C13: when the scan processes a day while tracking and the day's high is
\* above the trailing high and its low at or below the trailing low, the
\* breakout wins: after the day the status is BUY_TRIGGERED and buyTriggerDate
\* is that day; and the status leaves BUY_TRIGGERED for TRACKING only on a
\* day whose low is at or below its trailing low.
C13_Step ==
    ScanStep =>
        LET day == At(candles, anI)
        IN  /\ (anIsTracking /\ day.high > WindowHigh(anI) /\ day.low <= WindowLow(anI)) =>
                   /\ status' = "BUY_TRIGGERED"
                   /\ buyTriggerDate' = DateOf(anI)
            /\ (status = "BUY_TRIGGERED" /\ status' = "TRACKING") =>
                   day.low <= WindowLow(anI)

\* C13: on a tracking day with both a breakout and a low touch the scan ends
\* the day in BUY_TRIGGERED with buyTriggerDate set to it.
C13_BreakoutWins == [][C13_Step]_vars

-----------------------------------------------------------------------------
(* runBacktest: exits before entries *)

\* C14: the exit evaluation of a day precedes its entry evaluation, so a lot
\* is never evaluated for exit on the day it was bought: when the exits of
\* day i are evaluated every open lot was bought before day i, and every
\* closed trade and every SELL has its exit date after its entry date and at
\* least 1 holding day, in both exit modes.
C14_ExitAfterEntryDay ==
    Simulating =>
        /\ (pc = "sells" /\ i < n) =>
               \A k \in 1 .. Len(internalOpenPositions) :
                   internalOpenPositions[k].buyDate < DateOf(i)
        /\ \A k \in 1 .. Len(trades) :
               /\ trades[k].sellDate > trades[k].buyDate
               /\ trades[k].holdingDays >= 1
        /\ \A dk \in LoggedOfType(dailyLog, "SELL") :
               LET a == dailyLog[dk[1]].activities[dk[2]]
               IN  /\ a.date > a.purchaseDate
                   /\ a.holdingDays >= 1

\* C14 witness: a trade is closed whose entry day's high had already reached
\* the price it was later sold at.
C14_Witness ==
    /\ Simulating
    /\ \E k \in 1 .. Len(trades) :
           /\ RLe(trades[k].sellPrice, RInt(At(candles, trades[k].buyDate).high))
           /\ trades[k].sellDate = trades[k].buyDate + 1

-----------------------------------------------------------------------------
(* runBacktest: the profit identity *)

\* The summed cost basis quantity x buyPrice of positions k .. of ps.
RECURSIVE CostBasis(_, _)
CostBasis(ps, k) ==
    IF k > Len(ps) THEN 0
    ELSE ps[k].quantity * ps[k].buyPrice + CostBasis(ps, k + 1)

\* C15: in the result totalProfit = finalCapital - initialCapital equals
\* realizedProfit + unrealizedProfit, and blockedCapital is the summed cost
\* basis of the open positions.
C15_ProfitIdentity ==
    Returned =>
        /\ result.totalProfit = RSub(result.finalCapital, result.initialCapital)
        /\ result.totalProfit = RAdd(result.realizedProfit, result.unrealizedProfit)
        /\ result.blockedCapital = RInt(CostBasis(result.openPositions, 1))
        /\ result.finalCapital =
               RAdd(cash, RInt(ValueAt(result.openPositions,
                                       At(candles, n - 1).close, 1)))

\* C15 witness: a result with a realized profit from a closed trade and an
\* unrealized profit on a position still open.
C15_Witness ==
    /\ Returned
    /\ result.trades # <<>>
    /\ result.openPositions # <<>>
    /\ result.realizedProfit # RInt(0)
    /\ result.unrealizedProfit # RInt(0)
    /\ result.blockedCapital # RInt(0)

-----------------------------------------------------------------------------
(* CAGR *)

\* A CAGR calculation called on its own has returned.
CagrReturned == pc = "done" /\ cagrOut # Null

\* The yearly growths 1 + r a round trip is checked for.
CagrRates == CagrGrowths \cup { RMul(g, g) : g \in CagrGrowths }

\* final = initial x growth^years for years = p/q, as (final/initial)^q = growth^p.
IsCompounded(initial, final, growth, years) ==
    LET ratio == RDiv(final, initial)
    IN  /\ RLt(RInt(0), ratio)
        /\ <<IntPow(ratio[1], years[2]), IntPow(ratio[2], years[2])>>
               = <<IntPow(growth[1], years[1]), IntPow(growth[2], years[1])>>

\* C16, the round trip: when years = days / 365.25 > 0 and
\* final = initial x (1 + r)^years, both CAGR calculations return r x 100
\* within 0.1.
C16_RoundTrip ==
    CagrReturned =>
        LET in == cagrIn[2]
            years == RDiv(in.days, DaysPerYear)
        IN  \A g \in CagrRates :
                (/\ RLt(RInt(0), years)
                 /\ RLt(RInt(0), in.initial)
                 /\ IsCompounded(in.initial, in.final, g, years)) =>
                    /\ IsRational(cagrOut)
                    /\ LET r100 == RMul(RSub(g, RInt(1)), RInt(100))
                           diff == RSub(cagrOut, r100)
                       IN  /\ RLt(diff, <<1, 10>>)
                           /\ RLt(<<-1, 10>>, diff)

\* C16, the zero cases: a CAGR calculation returns 0 when the years are <= 0,
\* and the one of runBacktest returns 0 when finalCapital <= 0; the result of
\* a run on exactly 21 bars, whose first evaluated day is its last, has CAGR 0.
C16_Zero ==
    /\ CagrReturned =>
           LET in == cagrIn[2]
           IN  /\ RLe(in.days, RInt(0)) => cagrOut = RInt(0)
               /\ (cagrIn[1].fn = "runBacktest" /\ RLe(in.final, RInt(0))) =>
                      cagrOut = RInt(0)
    /\ Returned =>
           /\ n = MinCandles => result.cagr = RInt(0)
           /\ (result.endDate <= result.startDate
               \/ RLe(result.finalCapital, RInt(0))) => result.cagr = RInt(0)

-----------------------------------------------------------------------------
(* runBacktest: the tracking flag after a buy signal *)

\* The BUY and SKIPPED activities among acts.
Attempts(acts) == OfType(acts, "BUY") \cup OfType(acts, "SKIPPED")

\* C17, the entry step: the breakout check fires exactly on the days recorded
\* as fired, and when it fires the tracking flag is false after the step.
C17_Step ==
    EntryStep =>
        /\ EntryCheckFires <=> DateOf(i) \in firedDays'
        /\ firedDays' \ {DateOf(i)} = firedDays
        /\ EntryCheckFires => isTracking' = FALSE

\* C17, the days: the tracking flag is false at the end of a day on which the
\* check fired; no day has more than one BUY or SKIPPED activity; between two
\* days d1 < d2 on which the check fired there is a day t, d1 < t <= d2, whose
\* low is at or below its trailing low.
C17_Days ==
    Simulating =>
        /\ (pc = "accounting" /\ DateOf(i) \in firedDays) => ~isTracking
        /\ (pc = "sells" /\ DateOf(i - 1) \in firedDays) => ~isTracking
        /\ Cardinality(Attempts(activitiesToday)) <= 1
        /\ \A d \in 1 .. Len(dailyLog) :
               Cardinality(Attempts(dailyLog[d].activities)) <= 1
        /\ \A d1, d2 \in firedDays :
               d1 < d2 =>
                   \E t \in (d1 + 1) .. d2 : At(candles, t).low <= WindowLow(t)

\* C17: a fired breakout check always disarms tracking, so a day has at most
\* one BUY or SKIPPED and two fired days have a low touch after the first and
\* no later than the second.
C17_SignalDisarmsTracking == [][C17_Step]_vars /\ []C17_Days

\* C17 witness: the check has fired on two days, the second time without a
\* BUY or a SKIPPED because the lots are at the level limit, and the day's
\* entry evaluation has left the tracking flag false.
C17_Witness ==
    /\ pc = "accounting"
    /\ DateOf(i) \in firedDays
    /\ Cardinality(firedDays) >= 2
    /\ Attempts(activitiesToday) = {}
    /\ Len(internalOpenPositions) = args.avgLevels
    /\ ~isTracking

-----------------------------------------------------------------------------
(* runBacktest: the reset when the last lots close *)

\* C18, the steps: after the exit evaluation an empty list of open lots has
\* buy number 0; an exit evaluation that closes the last open lots leaves the
\* tracking flag false; an entry evaluation that fires after the last lots
\* closed that day does so on the day's own low touch; and a lot opened while
\* no other lot is open carries number 1.
C18_Step ==
    /\ SellsStep =>
           /\ internalOpenPositions' = <<>> => currentBuyNumber' = 0
           /\ (internalOpenPositions # <<>> /\ internalOpenPositions' = <<>>) =>
                  isTracking' = FALSE
    /\ EntryStep =>
           /\ (internalOpenPositions = <<>>
               /\ OfType(activitiesToday, "SELL") # {}
               /\ DateOf(i) \in firedDays') =>
                  At(candles, i).low <= WindowLow(i)
           /\ (internalOpenPositions = <<>> /\ internalOpenPositions' # <<>>) =>
                  \A k \in 1 .. Len(internalOpenPositions') :
                      internalOpenPositions'[k].buyNumber = 1

\* C18: when the last open lots close the buy number returns to 0 and tracking
\* is disarmed before the day's entry evaluation, and the next lot is number 1.
C18_CycleReset == [][C18_Step]_vars

\* C18 witness: tracking was armed the day before by a low touch without a
\* breakout; today the last open lot closed and the day's high is above the
\* trailing high, but its low is not a touch, and the entry check has not fired.
C18_Witness ==
    /\ pc = "accounting"
    /\ i > Lookback
    /\ At(candles, i - 1).low <= WindowLow(i - 1)
    /\ At(candles, i - 1).high <= WindowHigh(i - 1)
    /\ OfType(activitiesToday, "SELL") # {}
    /\ internalOpenPositions = <<>>
    /\ At(candles, i).high > WindowHigh(i)
    /\ At(candles, i).low > WindowLow(i)
    /\ DateOf(i) \notin firedDays
    /\ currentBuyNumber = 0
    /\ ~isTracking

-----------------------------------------------------------------------------
(* runBacktest: arming and the breakout check on the same day *)

\* The entry evaluation of a day that is not tracking and whose bar is both a
\* low touch and a breakout.
ArmAndBreakOut ==
    /\ EntryStep
    /\ ~isTracking
    /\ At(candles, i).low <= WindowLow(i)
    /\ At(candles, i).high > WindowHigh(i)

\* C19: on a day that is not tracking and whose bar has both low <= trailing
\* low and high > trailing high the entry check fires that same day and the
\* tracking flag is false after it; when the buy number is below avgLevels,
\* the quantity positive and the cash sufficient, the day records a BUY dated
\* that day and opens the lot.
C19_Step ==
    ArmAndBreakOut =>
        /\ DateOf(i) \in firedDays'
        /\ isTracking' = FALSE
        /\ (/\ currentBuyNumber < args.avgLevels
            /\ EntryQuantity > 0
            /\ EntryQuantity * WindowHigh(i) * cash[2] <= cash[1]) =>
               /\ Cardinality(OfType(activitiesToday', "BUY")) = 1
               /\ Last(activitiesToday').type = "BUY"
               /\ Last(activitiesToday').date = DateOf(i)
               /\ Last(activitiesToday').price = RInt(WindowHigh(i))
               /\ Len(internalOpenPositions') = Len(internalOpenPositions) + 1
               /\ Last(internalOpenPositions').buyDate = DateOf(i)

\* C19: a low touch and a breakout on the same bar enter on that bar.
C19_ArmAndEnterSameDay == [][C19_Step]_vars

\* C19 witness: the first evaluated day, which starts without tracking, has
\* touched the trailing low, broken the trailing high and bought.
C19_Witness ==
    /\ pc = "accounting"
    /\ i = Lookback
    /\ At(candles, i).low <= WindowLow(i)
    /\ At(candles, i).high > WindowHigh(i)
    /\ OfType(activitiesToday, "BUY") # {}
    /\ Len(internalOpenPositions) = 1
    /\ internalOpenPositions[1].buyDate = DateOf(i)
    /\ ~isTracking

-----------------------------------------------------------------------------
(* analyzeStock: a buy trigger exits tracking *)

\* The scan sets buyTriggerDate in this step.
TriggerStep == ScanStep /\ buyTriggerDate' # buyTriggerDate

\* C20: a step of the scan sets buyTriggerDate only on a tracking day whose
\* high is above its trailing high, sets it to that day and leaves tracking;
\* and when buyTriggerDate was set before, a day strictly between that day and
\* this one has a low at or below its trailing low.  buyTriggerDate holds the
\* latest trigger day, so this is the statement for two consecutive trigger
\* days, and any two trigger days enclose two consecutive ones.
C20_Step ==
    TriggerStep =>
        /\ anIsTracking
        /\ At(candles, anI).high > WindowHigh(anI)
        /\ buyTriggerDate' = DateOf(anI)
        /\ anIsTracking' = FALSE
        /\ buyTriggerDate # Undefined =>
               \E t \in (buyTriggerDate + 1) .. (anI - 1) :
                   At(candles, t).low <= WindowLow(t)

\* C20: between two days on which the scan sets buyTriggerDate there is a
\* day strictly between them whose low touches its trailing low.
C20_TriggerExitsTracking == [][C20_Step]_vars

\* C20 witness: the scan triggered on the second evaluated day, was re-armed
\* by the low of the third and has triggered again on the fourth.
C20_Witness ==
    /\ pc = "scan"
    /\ anI = Lookback + 4
    /\ At(candles, Lookback).low <= WindowLow(Lookback)
    /\ At(candles, Lookback + 1).high > WindowHigh(Lookback + 1)
    /\ At(candles, Lookback + 1).low > WindowLow(Lookback + 1)
    /\ At(candles, Lookback + 2).low <= WindowLow(Lookback + 2)
    /\ buyTriggerDate = DateOf(Lookback + 3)
    /\ ~anIsTracking

-----------------------------------------------------------------------------
(* analyzeStock: the trigger date *)

\* The days among the first k evaluated ones whose low is at or below the
\* lowest low of their 20 preceding bars.
TouchDays(k) ==
    { t \in Lookback .. (k - 1) : At(candles, t).low <= WindowLow(t) }

\* The latest of a non-empty set of days.
LatestOf(days) == CHOOSE d \in days : \A e \in days : e <= d

\* C21, the scan: after the days before anI, triggerDate is the latest touch
\* day among them; it is undefined exactly when there is none, and then the
\* status is NEUTRAL, and with a touch day the status is not NEUTRAL.
C21_TriggerDate ==
    /\ pc = "scan" =>
           LET touched == TouchDays(anI)
           IN  /\ touched = {} <=> triggerDate = Undefined
               /\ touched = {} <=> status = "NEUTRAL"
               /\ touched # {} => triggerDate = DateOf(LatestOf(touched))
    /\ (pc = "done" /\ analysis # Null) =>
           LET touched == TouchDays(n)
           IN  /\ touched = {} <=> analysis.triggerDate = Undefined
               /\ touched = {} <=> analysis.status = "NEUTRAL"
               /\ touched # {} =>
                      analysis.triggerDate = DateOf(LatestOf(touched))

\* C21, the steps: a status that has left NEUTRAL does not return to it.
C21_Step == status # "NEUTRAL" => status' # "NEUTRAL"

\* C21: the reported triggerDate is the latest day whose low touched its
\* trailing 20-bar low, undefined exactly when there is none (status NEUTRAL),
\* and the status never returns to NEUTRAL.
C21_TriggerDateIsLatestTouch == []C21_TriggerDate /\ [][C21_Step]_vars

\* C21 witness: the scan has returned after a touch that entered tracking and
\* a later touch, made while tracking, that is the reported triggerDate.
C21_Witness ==
    /\ pc = "done"
    /\ analysis # Null
    /\ Cardinality(TouchDays(n)) >= 2
    /\ Lookback + 1 \in TouchDays(n)
    /\ At(candles, Lookback + 1).high <= WindowHigh(Lookback + 1)
    /\ analysis.triggerDate = DateOf(Lookback + 1)
    /\ analysis.triggerDate > DateOf(Lookback)
    /\ Lookback \in TouchDays(n)

-----------------------------------------------------------------------------
(* runBacktest: a trade amount below the breakout price *)

\* Every breakout of the days read so far is at a price the trade amount
\* buys no share at: floor(tradeAmount / trailing high) = 0.
NoAffordableBreakout ==
    \A k \in Lookback .. (Len(candles) - 1) :
        At(candles, k).high > WindowHigh(k) =>
            tradeAmount[1] \div (tradeAmount[2] * WindowHigh(k)) = 0

\* C22, the entry step: when the breakout check fires and the quantity is 0,
\* the step records no activity, opens no lot and leaves the cash unchanged.
C22_Step ==
    (EntryStep /\ EntryCheckFires /\ EntryQuantity = 0) =>
        /\ activitiesToday' = activitiesToday
        /\ Attempts(activitiesToday') = {}
        /\ internalOpenPositions' = internalOpenPositions
        /\ cash' = cash
        /\ trades' = trades

\* C22, the run: when every breakout of the run has quantity 0, the result
\* has no trade, no open position and no activity, and finalCapital =
\* initialCapital.
C22_Run ==
    (Returned /\ NoAffordableBreakout) =>
        /\ result.totalTrades = 0
        /\ result.trades = <<>>
        /\ result.openPositions = <<>>
        /\ \A d \in 1 .. Len(result.dailyLog) :
               /\ result.dailyLog[d].activities = <<>>
               /\ result.dailyLog[d].cash = result.initialCapital
        /\ result.finalCapital = result.initialCapital

\* C22: a fired breakout check whose quantity is 0 records nothing and buys
\* nothing, and a run with only such breakouts ends with the initial capital.
C22_ZeroQuantityIsSilent == [][C22_Step]_vars /\ []C22_Run

\* C22 witness: a run has returned in which the breakout check fired on two
\* days, each time with quantity 0, and nothing was recorded.
C22_Witness ==
    /\ Returned
    /\ NoAffordableBreakout
    /\ Cardinality(firedDays) >= 2
    /\ \A d \in 1 .. Len(result.dailyLog) : result.dailyLog[d].activities = <<>>
    /\ result.finalCapital = result.initialCapital

-----------------------------------------------------------------------------
(* runBacktest: the entry price *)

\* The bar of the day an activity is dated.
BarOf(activity) == At(candles, activity.date)

\* The BUY activities recorded so far, of the ledger and of the current day.
BuysSoFar ==
    { dailyLog[dk[1]].activities[dk[2]] : dk \in LoggedOfType(dailyLog, "BUY") }
    \cup
    (IF pc = "accounting"
     THEN { activitiesToday[k] : k \in OfType(activitiesToday, "BUY") }
     ELSE {})

\* C23: the price of every BUY is the highest high of the 20 bars before the
\* day it is recorded on, and is strictly below that day's high.
C23_BuyAtTrailingHigh ==
    Simulating =>
        \A a \in BuysSoFar :
            /\ a.price = RInt(WindowHigh(a.date))
            /\ RLt(a.price, RInt(BarOf(a).high))

\* C23 witness: a run holds a BUY at a price above the close of its day and
\* a BUY, on a bar that gapped up, at a price below the low of its day.
C23_Witness ==
    /\ Simulating
    /\ \E a \in BuysSoFar : RLt(RInt(BarOf(a).close), a.price)
    /\ \E a \in BuysSoFar : RLt(a.price, RInt(BarOf(a).low))

-----------------------------------------------------------------------------
(* runBacktest: the profit of an exit *)

\* The summed profit of the trades k .. of ts.
RECURSIVE ProfitSum(_, _)
ProfitSum(ts, k) ==
    IF k > Len(ts) THEN RInt(0) ELSE RAdd(ts[k].profit, ProfitSum(ts, k + 1))

\* C24: in WEIGHTED_AVERAGE mode with targetProfitPercent > 0, an exit
\* evaluation that closes trades closes every open lot, the profits of its
\* trades sum to targetProfitPercent percent of the summed cost basis of the
\* lots, which is a positive total, and no step lowers the realized profit.
C24_Step ==
    /\ (/\ SellsStep
        /\ args.exitStrategy = "WEIGHTED_AVERAGE"
        /\ args.targetProfitPercent > 0
        /\ NewTrades # <<>>) =>
           /\ Len(NewTrades) = Len(internalOpenPositions)
           /\ internalOpenPositions' = <<>>
           /\ ProfitSum(NewTrades, 1) =
                  RDiv(RInt(args.targetProfitPercent
                            * CostBasis(internalOpenPositions, 1)),
                       RInt(100))
           /\ RLt(RInt(0), ProfitSum(NewTrades, 1))
    /\ (/\ pc \in {"sells", "entry", "accounting"}
        /\ args.exitStrategy = "WEIGHTED_AVERAGE"
        /\ args.targetProfitPercent > 0) =>
           RLe(ProfitSum(trades, 1), ProfitSum(trades', 1))

\* C24: a weighted-average exit realizes targetProfitPercent percent of the
\* position's cost basis, whatever the entry prices of its lots.
C24_ExitRealizesTarget == [][C24_Step]_vars

\* C24 witness: a weighted-average exit has closed two lots at once, one of
\* them at a loss.
C24_Witness ==
    /\ pc = "entry"
    /\ args.exitStrategy = "WEIGHTED_AVERAGE"
    /\ args.targetProfitPercent > 0
    /\ \E j, k \in 1 .. Len(trades) :
           /\ trades[j].sellDate = DateOf(i)
           /\ trades[k].sellDate = DateOf(i)
           /\ RLt(trades[j].profit, RInt(0))
           /\ RLt(RInt(0), trades[k].profit)

-----------------------------------------------------------------------------
(* runBacktest: LIFO trades *)

\* C25: in LIFO mode with targetProfitPercent > 0 every closed trade has a
\* profit above 0 and is sold at its own target; the result then has no
\* losing trade and, when it has trades, a win rate of 100.
C25_LifoTradesWin ==
    (Simulating /\ args.exitStrategy = "LIFO" /\ args.targetProfitPercent > 0) =>
        /\ \A k \in 1 .. Len(trades) :
               /\ RLt(RInt(0), trades[k].profit)
               /\ trades[k].sellPrice =
                      RDiv(RInt(trades[k].buyPrice * (100 + args.targetProfitPercent)),
                           RInt(100))
        /\ Returned =>
               /\ result.losingTrades = 0
               /\ result.winningTrades = result.totalTrades
               /\ result.totalTrades > 0 => result.winRate = RInt(100)
               /\ result.totalTrades = 0 => result.winRate = RInt(0)

\* C25 witness: a LIFO result with a closed trade, a win rate of 100 and an
\* open position that stands at a loss.
C25_Witness ==
    /\ Returned
    /\ args.exitStrategy = "LIFO"
    /\ args.targetProfitPercent > 0
    /\ result.totalTrades > 0
    /\ result.winRate = RInt(100)
    /\ \E k \in 1 .. Len(result.openPositions) : result.openPositions[k].pnl < 0
    /\ RLt(result.unrealizedProfit, RInt(0))

-----------------------------------------------------------------------------
(* runBacktest: cash and money *)

\* C26: the cash is never negative, at any point of the run and in any
\* ledger entry.
C26_CashNeverNegative ==
    Simulating =>
        /\ RLe(RInt(0), cash)
        /\ \A d \in 1 .. Len(dailyLog) : RLe(RInt(0), dailyLog[d].cash)

\* C26 witness: a BUY has just taken the last of the cash.
C26_Witness ==
    /\ pc = "accounting"
    /\ OfType(activitiesToday, "BUY") # {}
    /\ cash = RInt(0)
    /\ Len(internalOpenPositions) = 2

\* C27: at every point of the run, and with the cash of every ledger day's
\* end, cash + the summed cost basis of the open lots - the summed profit of
\* the closed trades is the initial capital, in both exit modes.
C27_MoneyConservation ==
    (pc \in {"sells", "entry", "accounting"} \/ Returned) =>
        RSub(RAdd(cash, RInt(CostBasis(internalOpenPositions, 1))),
             ProfitSum(trades, 1)) = RInt(args.initialCapital)

\* C27 witness: a day has ended after a buy, a skipped attempt and a sale
\* at a profit.
C27_Witness ==
    /\ pc = "sells"
    /\ LoggedOfType(dailyLog, "BUY") # {}
    /\ LoggedOfType(dailyLog, "SKIPPED") # {}
    /\ LoggedOfType(dailyLog, "SELL") # {}
    /\ ProfitSum(trades, 1) # RInt(0)

-----------------------------------------------------------------------------
(* runBacktest: the summary and the ledger *)

\* The summed currentValue of positions k .. of ps.
RECURSIVE CurrentValueSum(_, _)
CurrentValueSum(ps, k) ==
    IF k > Len(ps) THEN 0 ELSE ps[k].currentValue + CurrentValueSum(ps, k + 1)

\* C28: in the result the last ledger entry is dated the last bar, its equity
\* is finalCapital, its cash is the cash finalCapital is computed from, and
\* the open positions are exactly the lots open at that day's end, valued at
\* the last close, their values summing to the entry's invested value.
C28_SummaryAgreesWithLedger ==
    Returned =>
        LET last == Last(result.dailyLog)
            ops == result.openPositions
            close == At(candles, n - 1).close
        IN  /\ last.date = result.endDate
            /\ last.equity = result.finalCapital
            /\ last.cash = cash
            /\ last.cash = RSub(result.finalCapital, RInt(CurrentValueSum(ops, 1)))
            /\ last.invested = RInt(CurrentValueSum(ops, 1))
            /\ Len(ops) = Len(internalOpenPositions)
            /\ \A k \in 1 .. Len(ops) :
                   /\ ops[k].buyDate = internalOpenPositions[k].buyDate
                   /\ ops[k].buyPrice = internalOpenPositions[k].buyPrice
                   /\ ops[k].quantity = internalOpenPositions[k].quantity
                   /\ ops[k].buyNumber = internalOpenPositions[k].buyNumber
                   /\ ops[k].currentPrice = close
                   /\ ops[k].currentValue = ops[k].quantity * close

\* C28 witness: a result with two open positions whose value at the last close
\* differs from their cost, the newer one bought on the last day.
C28_Witness ==
    /\ Returned
    /\ Len(result.openPositions) = 2
    /\ result.openPositions[2].buyDate = result.endDate
    /\ Last(result.dailyLog).invested # result.blockedCapital
    /\ Last(result.dailyLog).equity = result.finalCapital

-----------------------------------------------------------------------------
(* analyzeStock and runBacktest on the day that arms tracking *)

\* Day k's low is at or below its trailing low and its high above its
\* trailing high.
TouchAndBreakOut(k) ==
    /\ At(candles, k).low <= WindowLow(k)
    /\ At(candles, k).high > WindowHigh(k)

\* C29: the scan of analyzeStock, on a day processed while not tracking that
\* both touches the trailing low and breaks the trailing high, only enters
\* TRACKING: it stays armed and does not set buyTriggerDate, which it sets
\* only on days that began armed; runBacktest, on such a day, fires its entry
\* check and disarms.
C29_Step ==
    /\ (ScanStep /\ ~anIsTracking /\ TouchAndBreakOut(anI)) =>
           /\ status' = "TRACKING"
           /\ triggerDate' = DateOf(anI)
           /\ anIsTracking' = TRUE
           /\ buyTriggerDate' = buyTriggerDate
    /\ TriggerStep => anIsTracking
    /\ (EntryStep /\ ~isTracking /\ TouchAndBreakOut(i)) =>
           /\ DateOf(i) \in firedDays'
           /\ isTracking' = FALSE

\* C29: analyzeStock never triggers on the day that armed it, runBacktest
\* fires on that day.
C29_ArmingDayDiffers == [][C29_Step]_vars

\* C29 witness: on the same bars runBacktest fired its entry check on the
\* first evaluated day only, and analyzeStock, armed by that day, triggered
\* on the second.
C29_Witness ==
    /\ pc = "done"
    /\ Returned
    /\ analysis # Null
    /\ TouchAndBreakOut(Lookback)
    /\ firedDays = {DateOf(Lookback)}
    /\ analysis.buyTriggerDate = DateOf(Lookback + 1)

-----------------------------------------------------------------------------
(* analyzeStock: the status and the two dates *)

\* The relation of a status and the two dates.
DatesAgree(st, trigger, buyTrigger) ==
    /\ st = "BUY_TRIGGERED" =>
           /\ trigger # Undefined
           /\ buyTrigger # Undefined
           /\ trigger < buyTrigger
    /\ (st = "TRACKING" /\ buyTrigger # Undefined) => trigger >= buyTrigger
    /\ buyTrigger # Undefined => trigger # Undefined

\* C30: the status is BUY_TRIGGERED only with both dates defined and
\* triggerDate < buyTriggerDate; a TRACKING status with a buyTriggerDate has
\* triggerDate >= buyTriggerDate; a defined buyTriggerDate comes with a
\* defined triggerDate.  This holds during the scan and in what it returns.
C30_StatusFollowsDates ==
    /\ pc = "scan" => DatesAgree(status, triggerDate, buyTriggerDate)
    /\ (pc = "done" /\ analysis # Null) =>
           DatesAgree(analysis.status, analysis.triggerDate,
                      analysis.buyTriggerDate)

\* C30 witness: analyzeStock has returned TRACKING with triggerDate equal to
\* buyTriggerDate, the day being both a buy trigger and a low touch.
C30_Witness ==
    /\ pc = "done"
    /\ analysis # Null
    /\ analysis.status = "TRACKING"
    /\ analysis.buyTriggerDate # Undefined
    /\ analysis.triggerDate = analysis.buyTriggerDate

====
